---- MODULE Spec2Model ----
(***************************************************************************)
(* Model of the GitHub <-> Notion issue synchronisation scripts:           *)
(*   scripts/sync_all_repos.py            (multi-repo sweep)               *)
(*   scripts/backfill_issues_to_notion.py (single-repo backfill)           *)
(*   scripts/sync_issue_to_notion.py      (event-driven / bidirectional)   *)
(*                                                                         *)
(* The module holds several specifications over one set of variables:     *)
(*   SpecMap   - the pure status mapping functions applied to inputs       *)
(*   SpecBody  - the body chunking of create_notion_page                   *)
(*   SpecFetch - the paginated issue listing and the comment fetch         *)
(*   Spec      - the reconcile loops against the Notion database           *)
(*   SpecForward - the forward passes on an issue that is edited between   *)
(*               them                                                      *)
(*   SpecSweep - the bidirectional invocation and its Notion -> GitHub     *)
(*               sweep (FairSweep: with the fairness of a running process) *)
(*   SpecBoth  - sync_all_repos passes and bidirectional invocations on    *)
(*               one database                                              *)
(*   SpecEnum  - the cursor pagination of get_all_notion_pages (FairEnum)  *)
(* Each specification leaves the variables of the others at their idle     *)
(* values.                                                                 *)
(***************************************************************************)
EXTENDS Integers, Sequences, FiniteSets, TLC

\* A value no program value equals (Python's None / "not computed yet").
NoValue == "<none>"

(***************************************************************************)
(* Bounds of the model.                                                    *)
(***************************************************************************)
\* Largest number of labels on one issue in the mapping specification.
MaxLabels == 3

\* Largest body length, in characters, in the body specification.
MaxBody == 5000
\* Largest number of full pages a repository holds per issue state.
MaxPages == 2
\* Largest number of script runs in one behaviour.
MaxRuns == 2
\* Largest number of pages in the database get_all_notion_pages enumerates.
MaxRecords == 8
\* Largest number of pages the query endpoint returns in one response.
MaxQueryPage == 2

(***************************************************************************)
(* State.                                                                  *)
(***************************************************************************)
VARIABLES
    \* -- status mapping (SpecMap)
    m_state,    \* input: the issue's state, "open" or "closed"
    m_labels,   \* input: the names of the issue's labels
    m_all,      \* result of sync_all_repos.map_status, or NoValue
    m_evt,      \* result of sync_issue_to_notion.map_status_to_notion
    m_back,     \* result of map_status_to_github applied to m_evt
    \* -- body chunking (SpecBody)
    b_body,     \* input: the issue body, see BodyOfLen
    b_all,      \* the body blocks built by sync_all_repos.py
    b_evt,      \* the body blocks built by sync_issue_to_notion.py
    b_built,    \* the scripts whose create_notion_page has built its blocks
    \* -- source fetcher (SpecFetch)
    f_src,      \* the repository as the GitHub API serves it
    f_pc,       \* "idle", "loop", "done", "comments" or "raised"
    f_state,    \* the state being listed: "open" or "closed"
    f_page,     \* the page requested next
    all_issues, \* get_all_issues' accumulator
    f_requests, \* page requests issued so far, per state
    f_failed,   \* the states whose listing met a non-200 response
    f_cresp,    \* the response get_issue_comments received
    f_comments, \* what get_issue_comments returned
    \* -- reconciler (Spec)
    db,         \* the pages of the Notion database, in query order
    pc,         \* "idle", "loop" (inside a for loop) or "returned"
    script,     \* the script that ran last or is running
    run_repo,   \* the repository it works on
    run_issues, \* the numbers of the issues get_all_issues returned
    idx,        \* how many of them the loop has been through
    counters,   \* created, updated, errors of the running loop
    outcomes,   \* the outcome of each iteration of the running loop
    last,       \* the last attempt on an issue, see LastOf
    runs,       \* script runs started so far
    \* -- the issue on GitHub and the forward passes (SpecForward, SpecSweep)
    gh,         \* issue 1 of GITHUB_REPO_NAME as it stands on GitHub
    fw_last,    \* the last forward attempt on it, see ForwardOf
    fresh,      \* ids of the pages a forward pass of sync_issue_to_notion.py
                \* wrote from gh as it stands
    \* -- bidirectional invocation and sweep (SpecSweep)
    s_pc,       \* "idle", "forwarded", "sweep", "complete" or "raised"
    s_phases,   \* the passes the running invocation has entered, in order
    s_pages,    \* the pages of get_all_notion_pages() the for loop has left
    s_count,    \* how many pages get_all_notion_pages() returned
    s_idx,      \* how many of them the for loop has been through
    s_last,     \* what the loop did on the last of them, see NoRecordStep
    s_faults,   \* how many iterations ended in the except clause
    \* -- get_all_notion_pages (SpecEnum)
    n_store,    \* the database served: its size and the server's page size
    n_pc,       \* "idle", "loop", "returned" or "raised"
    has_more,   \* get_all_notion_pages' has_more
    start_cursor, \* its start_cursor; 0 is None
    all_pages,  \* its accumulator
    n_asked     \* the start_cursor of each request sent, in order

mapVars == <<m_state, m_labels, m_all, m_evt, m_back>>
bodyVars == <<b_body, b_all, b_evt, b_built>>
fetchVars ==
    <<f_src, f_pc, f_state, f_page, all_issues, f_requests, f_failed,
      f_cresp, f_comments>>

syncVars ==
    <<db, pc, script, run_repo, run_issues, idx, counters, outcomes, last,
      runs>>

forwardVars == <<gh, fw_last, fresh>>
sweepVars == <<s_pc, s_phases, s_pages, s_count, s_idx, s_last, s_faults>>
enumVars == <<n_store, n_pc, has_more, start_cursor, all_pages, n_asked>>
\* The variables the specifications of the first four groups leave alone.
extVars == <<forwardVars, sweepVars, enumVars>>

vars == <<mapVars, bodyVars, fetchVars, syncVars, extVars>>

(***************************************************************************)
(* Status mapping (Field Mapper).                                          *)
(***************************************************************************)

IssueStates == {"open", "closed"}

\* Label names an issue can carry in the model: the keywords the code tests,
\* spellings that differ from them only by case, and labels it does not test
\* (one of them spelt like a status).
LabelNames ==
    {"blocked", "Blocked", "in-progress", "In Progress", "review",
     "under-review", "bug", "urgent", "Done"}

\* str.lower() on the label names of the model.
Lower(s) ==
    CASE s = "Blocked" -> "blocked"
      [] s = "In Progress" -> "in progress"
      [] s = "Done" -> "done"
      [] OTHER -> s

\* label_names = [l["name"].lower() for l in labels]
LabelNamesLower(labels) == {Lower(l) : l \in labels}

\* A plausible slip: the label keywords are tested before the closed state.
map_status_labels_first(issue_state, labels) ==
    LET label_names == LabelNamesLower(labels) IN
    IF "blocked" \in label_names THEN "Blocked"
    ELSE IF "in-progress" \in label_names \/ "in progress" \in label_names
         THEN "In Progress"
    ELSE IF "review" \in label_names \/ "under-review" \in label_names
         THEN "Under Review"
    ELSE IF issue_state = "closed" THEN "Done"
    ELSE "Backlog"

\* sync_all_repos.map_status
map_status(issue_state, labels) ==
    IF issue_state = "closed" THEN "Done"
    ELSE LET label_names == LabelNamesLower(labels) IN
         IF "blocked" \in label_names THEN "Blocked"
         ELSE IF "in-progress" \in label_names \/ "in progress" \in label_names
              THEN "In Progress"
         ELSE IF "review" \in label_names \/ "under-review" \in label_names
              THEN "Under Review"
         ELSE "Backlog"

\* A plausible slip: the in-progress test comes before the blocked test.
map_status_to_notion_progress_first(issue_state, labels) ==
    IF issue_state = "closed" THEN "Done"
    ELSE IF labels # {} THEN
         LET label_names == LabelNamesLower(labels) IN
         IF "in-progress" \in label_names \/ "in progress" \in label_names
         THEN "In Progress"
         ELSE IF "blocked" \in label_names THEN "Blocked"
         ELSE IF "review" \in label_names \/ "under-review" \in label_names
              THEN "Under Review"
         ELSE "Backlog"
    ELSE "Backlog"

\* sync_issue_to_notion.map_status_to_notion
map_status_to_notion(issue_state, labels) ==
    IF issue_state = "closed" THEN "Done"
    ELSE IF labels # {} THEN
         LET label_names == LabelNamesLower(labels) IN
         IF "blocked" \in label_names THEN "Blocked"
         ELSE IF "in-progress" \in label_names \/ "in progress" \in label_names
              THEN "In Progress"
         ELSE IF "review" \in label_names \/ "under-review" \in label_names
              THEN "Under Review"
         ELSE "Backlog"
    ELSE "Backlog"

\* The statuses of the Notion database's Status select.
NotionStatuses ==
    {"Backlog", "In Progress", "Blocked", "Waiting on Client",
     "Under Review", "Done"}

\* sync_issue_to_notion.NOTION_TO_GITHUB_STATUS
NOTION_TO_GITHUB_STATUS ==
    [s \in NotionStatuses |-> IF s = "Done" THEN "closed" ELSE "open"]

\* A plausible slip: a review status is taken as finished work.
map_status_to_github_review_closed(notion_status) ==
    IF notion_status \in {"Done", "Under Review"} THEN "closed" ELSE "open"

\* sync_issue_to_notion.map_status_to_github: dict.get(status, "open")
map_status_to_github(notion_status) ==
    IF notion_status \in DOMAIN NOTION_TO_GITHUB_STATUS
    THEN NOTION_TO_GITHUB_STATUS[notion_status]
    ELSE "open"

LabelSets == {L \in SUBSET LabelNames : Cardinality(L) <= MaxLabels}

InitMap ==
    /\ m_state \in IssueStates
    /\ m_labels \in LabelSets
    /\ m_all = NoValue
    /\ m_evt = NoValue
    /\ m_back = NoValue

IdleMap ==
    /\ m_state = "open"
    /\ m_labels = {}
    /\ m_all = NoValue
    /\ m_evt = NoValue
    /\ m_back = NoValue

\* build_properties of sync_all_repos.py computes the Status property.
ApplyMapStatus ==
    /\ m_all = NoValue
    /\ m_all' = map_status(m_state, m_labels)
    /\ UNCHANGED <<m_state, m_labels, m_evt, m_back>>
    /\ UNCHANGED <<bodyVars, fetchVars, syncVars, extVars>>

\* build_properties of sync_issue_to_notion.py computes the Status property.
ApplyMapStatusToNotion ==
    /\ m_evt = NoValue
    /\ m_evt' = map_status_to_notion(m_state, m_labels)
    /\ UNCHANGED <<m_state, m_labels, m_all, m_back>>
    /\ UNCHANGED <<bodyVars, fetchVars, syncVars, extVars>>

\* The sweep derives the expected GitHub state from the written Status.
ApplyMapStatusToGithub ==
    /\ m_evt # NoValue
    /\ m_back = NoValue
    /\ m_back' = map_status_to_github(m_evt)
    /\ UNCHANGED <<m_state, m_labels, m_all, m_evt>>
    /\ UNCHANGED <<bodyVars, fetchVars, syncVars, extVars>>

NextMap ==
    \/ ApplyMapStatus
    \/ ApplyMapStatusToNotion
    \/ ApplyMapStatusToGithub

(***************************************************************************)
(* Body chunking of create_notion_page (Field Mapper, content blocks).     *)
(***************************************************************************)
\* issue_body[:4000] in sync_all_repos.create_notion_page
BodyLimit == 4000
\* the chunk width of sync_all_repos.create_notion_page
ChunkSizeAll == 2000
\* the chunk width of sync_issue_to_notion.create_notion_page
ChunkSizeEvt == 2000

Min(a, b) == IF a <= b THEN a ELSE b

\* Texts. A text is told by the positions lo..hi its characters have in
\* the body it was cut from (hi = lo - 1 for the empty text), so that a
\* lost, repeated or misplaced character shows in the result of a slicing.
BodyOfLen(n) == [lo |-> 1, hi |-> n]
EmptyText == BodyOfLen(0)

\* len(s)
TextLen(s) == s.hi - s.lo + 1

\* Python's s[i:j] for 0 <= i <= j
Slice(s, i, j) ==
    IF i >= TextLen(s) THEN [lo |-> s.hi + 1, hi |-> s.hi]
    ELSE [lo |-> s.lo + i, hi |-> s.lo + Min(j, TextLen(s)) - 1]

\* Python's s[:n]
Prefix(s, n) == Slice(s, 0, n)

\* [s[i:i+size] for i in range(0, len(s), size)]
Chunks(s, size) ==
    [k \in 1..((TextLen(s) + size - 1) \div size) |->
        Slice(s, (k - 1) * size, (k - 1) * size + size)]

\* sync_all_repos.create_notion_page: the paragraph blocks of the body
\* (no block, the payload having no "children" key, for an empty body).
BodyChildrenAll(issue_body) ==
    IF TextLen(issue_body) > 0
    THEN LET truncated == Prefix(issue_body, BodyLimit)
         IN  Chunks(truncated, ChunkSizeAll)
    ELSE <<>>

\* sync_issue_to_notion.create_notion_page: the paragraph blocks of the body
\* (the comment blocks that follow them are not part of this operator).
BodyChildrenEvt(issue_body) ==
    IF TextLen(issue_body) > 0
    THEN Chunks(issue_body, ChunkSizeEvt)
    ELSE <<>>

\* Body lengths of the model.
BodyLens == 0..MaxBody

InitBody ==
    /\ \E n \in BodyLens : b_body = BodyOfLen(n)
    /\ b_all = <<>>
    /\ b_evt = <<>>
    /\ b_built = {}

IdleBody ==
    /\ b_body = EmptyText
    /\ b_all = <<>>
    /\ b_evt = <<>>
    /\ b_built = {}

\* create_notion_page of sync_all_repos.py builds the body blocks.
BuildChildrenAll ==
    /\ "sync_all_repos" \notin b_built
    /\ b_all' = BodyChildrenAll(b_body)
    /\ b_built' = b_built \cup {"sync_all_repos"}
    /\ UNCHANGED <<b_body, b_evt>>
    /\ UNCHANGED <<mapVars, fetchVars, syncVars, extVars>>

\* create_notion_page of sync_issue_to_notion.py builds the body blocks.
BuildChildrenEvt ==
    /\ "sync_issue_to_notion" \notin b_built
    /\ b_evt' = BodyChildrenEvt(b_body)
    /\ b_built' = b_built \cup {"sync_issue_to_notion"}
    /\ UNCHANGED <<b_body, b_all>>
    /\ UNCHANGED <<mapVars, fetchVars, syncVars, extVars>>

NextBody ==
    \/ BuildChildrenAll
    \/ BuildChildrenEvt

(***************************************************************************)
(* Source Fetcher: get_all_issues and get_issue_comments.                  *)
(***************************************************************************)
\* "per_page": 100, and the full-page test len(issues) < 100
PerPage == 100

\* HTTP status codes a response carries in the model.
StatusCodes == {200, 403, 500}

\* The repository as served: n[s] items in state s, listed in a fixed order;
\* the items at the positions in prs are pull requests.
Totals ==
    {t \in 0..(MaxPages * PerPage + 1) :
        t % PerPage \in {0, 1, PerPage - 1}}
PrPositions == {1, PerPage, PerPage + 1}
Sources ==
    [n : [IssueStates -> Totals], prs : SUBSET PrPositions]

\* The item at position k of the listing of state s, told by its number:
\* the numbers of the closed items follow those of the open ones, and a
\* pull request (an item with the "pull_request" key) has its number negated.
Item(src, s, k) ==
    LET number == IF s = "open" THEN k ELSE src.n["open"] + k
    IN  IF k \in src.prs THEN -number ELSE number

\* "pull_request" in i
IsPullRequest(i) == i < 0

\* GET /repos/{owner}/{repo}/issues?state=s&per_page=100&page=p : the p-th
\* block of PerPage items of the listing, shorter or empty at its end.
ListIssuesPage(src, s, p) ==
    LET from == (p - 1) * PerPage + 1
        to == Min(p * PerPage, src.n[s])
    IN  IF from > to THEN <<>>
        ELSE [j \in 1..(to - from + 1) |-> Item(src, s, from + j - 1)]

\* A plausible slip: a failed request ends the whole enumeration.
get_all_issues_page_return_on_error(all, status, raw) ==
    IF status # 200
    THEN [all |-> all, brk |-> TRUE, ret |-> TRUE, exc |-> FALSE]
    ELSE IF raw = <<>>
    THEN [all |-> all, brk |-> TRUE, ret |-> FALSE, exc |-> FALSE]
    ELSE LET issues == SelectSeq(raw, LAMBDA i : ~IsPullRequest(i))
         IN  [all |-> all \o issues, brk |-> Len(issues) < PerPage,
              ret |-> FALSE, exc |-> FALSE]

\* One iteration of get_all_issues' inner loop on a response with the given
\* status and JSON body: the accumulator after it, whether the loop breaks,
\* whether the function returns, whether an exception leaves the function.
get_all_issues_page(all, status, raw) ==
    IF status # 200
    THEN [all |-> all, brk |-> TRUE, ret |-> FALSE, exc |-> FALSE]
    ELSE IF raw = <<>>
    THEN [all |-> all, brk |-> TRUE, ret |-> FALSE, exc |-> FALSE]
    ELSE LET issues == SelectSeq(raw, LAMBDA i : ~IsPullRequest(i))
         IN  [all |-> all \o issues, brk |-> Len(issues) < PerPage,
              ret |-> FALSE, exc |-> FALSE]

\* A plausible slip: the comment fetch raises on a failed request.
get_issue_comments_raise(resp) ==
    IF resp.status = 200
    THEN [ret |-> resp.json, exc |-> FALSE]
    ELSE [ret |-> <<>>, exc |-> TRUE]

\* get_issue_comments (the same in sync_all_repos.py and
\* sync_issue_to_notion.py): what it returns and whether it raises.
get_issue_comments(resp) ==
    IF resp.status = 200
    THEN [ret |-> resp.json, exc |-> FALSE]
    ELSE [ret |-> <<>>, exc |-> FALSE]

\* Comment lists the comments endpoint may carry in the model.
CommentLists == {<<>>, <<"c1">>, <<"c1", "c2">>}

InitFetch ==
    /\ f_src \in Sources
    /\ f_pc = "loop"
    /\ f_state = "open"
    /\ f_page = 1
    /\ all_issues = <<>>
    /\ f_requests = [s \in IssueStates |-> 0]
    /\ f_failed = {}
    /\ f_cresp = [status |-> 0, json |-> <<>>]
    /\ f_comments = <<>>

IdleFetch ==
    /\ f_src = [n |-> [s \in IssueStates |-> 0], prs |-> {}]
    /\ f_pc = "idle"
    /\ f_state = "open"
    /\ f_page = 1
    /\ all_issues = <<>>
    /\ f_requests = [s \in IssueStates |-> 0]
    /\ f_failed = {}
    /\ f_cresp = [status |-> 0, json |-> <<>>]
    /\ f_comments = <<>>

\* One request of get_all_issues and what the loop does with its response.
FetchPage ==
    /\ f_pc = "loop"
    /\ \E status \in StatusCodes :
         LET raw == ListIssuesPage(f_src, f_state, f_page)
             r == get_all_issues_page(all_issues, status, raw)
         IN  /\ all_issues' = r.all
             /\ f_requests' =
                  [f_requests EXCEPT ![f_state] = f_requests[f_state] + 1]
             /\ f_failed' =
                  IF status # 200 THEN f_failed \cup {f_state} ELSE f_failed
             /\ IF r.exc
                THEN /\ f_pc' = "raised"
                     /\ UNCHANGED <<f_state, f_page>>
                ELSE IF r.ret \/ (r.brk /\ f_state = "closed")
                THEN /\ f_pc' = "done"
                     /\ UNCHANGED <<f_state, f_page>>
                ELSE IF r.brk
                THEN /\ f_state' = "closed"
                     /\ f_page' = 1
                     /\ UNCHANGED f_pc
                ELSE /\ f_page' = f_page + 1
                     /\ UNCHANGED <<f_pc, f_state>>
    /\ UNCHANGED <<f_src, f_cresp, f_comments>>
    /\ UNCHANGED <<mapVars, bodyVars, syncVars, extVars>>

\* The reconcile loop calls get_issue_comments for an issue of the list.
FetchComments ==
    /\ f_pc = "done"
    /\ \E status \in StatusCodes, json \in CommentLists :
         LET resp == [status |-> status,
                      json |-> IF status = 200 THEN json ELSE <<>>]
             r == get_issue_comments(resp)
         IN  /\ f_cresp' = resp
             /\ f_comments' = r.ret
             /\ f_pc' = IF r.exc THEN "raised" ELSE "comments"
    /\ UNCHANGED <<f_src, f_state, f_page, all_issues, f_requests, f_failed>>
    /\ UNCHANGED <<mapVars, bodyVars, syncVars, extVars>>

NextFetch ==
    \/ FetchPage
    \/ FetchComments

(***************************************************************************)
(* The two remote systems as the reconcile loops see them.                 *)
(***************************************************************************)
\* The repositories of the model: two of sync_all_repos.REPOS, after
\* repo_full.split("/", 1). GITHUB_REPO_NAME names the first one.
Repos == {"revgen-work-tracker", "sports-betting"}
GITHUB_REPO_NAME == "revgen-work-tracker"

\* sync_all_repos.REPO_SOURCE_MAP, for the repositories of the model.
REPO_SOURCE_MAP ==
    [r \in Repos |-> IF r = "revgen-work-tracker" THEN "RevGen" ELSE "Sports"]

\* The issue numbers of a repository in the model.
IssueNumbers == 1..2

\* str(issue_number), for the issue numbers of the model.
ToStr(n) ==
    CASE n = 1 -> "1" [] n = 2 -> "2" [] n = 3 -> "3" [] n = 4 -> "4"
      [] OTHER -> "n"

\* An absent milestone (issue["milestone"] is None).
NoMilestone == [title |-> NoValue, due_on |-> NoValue]

\* The issues of the model, as the GitHub API returns them. Odd issue
\* numbers are plain open issues; even ones are closed and carry labels, a
\* milestone with a due date, assignees and a body. The title and the URL,
\* which the scripts copy verbatim, are left out.
IssueOf(n) ==
    IF n % 2 = 1
    THEN [number |-> n, state |-> "open", labels |-> {},
          milestone |-> NoMilestone, assignees |-> <<>>, body |-> EmptyText]
    ELSE [number |-> n, state |-> "closed", labels |-> {"Blocked", "urgent"},
          milestone |-> [title |-> "v1", due_on |-> "2026-12-31T08:00:00Z"],
          assignees |-> <<"alice", "bob">>, body |-> BodyOfLen(3)]

\* due_on[:10], the date part of the ISO-8601 timestamps of the model.
First10(ts) ==
    CASE ts = "2026-12-31T08:00:00Z" -> "2026-12-31"
      [] OTHER -> ts

\* ", ".join(a["login"] for a in assignees)
RECURSIVE JoinLogins(_)
JoinLogins(assignees) ==
    IF Len(assignees) = 0 THEN ""
    ELSE IF Len(assignees) = 1 THEN assignees[1]
    ELSE assignees[1] \o ", " \o JoinLogins(Tail(assignees))

\* sync_all_repos.get_priority_from_labels
get_priority_from_labels(labels) ==
    LET label_names == LabelNamesLower(labels) IN
    IF "high-priority" \in label_names \/ "high" \in label_names
         \/ "urgent" \in label_names
    THEN "High"
    ELSE IF "medium" \in label_names \/ "medium-priority" \in label_names
    THEN "Medium"
    ELSE IF "low" \in label_names \/ "low-priority" \in label_names
    THEN "Low"
    ELSE "Medium"

\* The empty properties payload.
NoProps == [p \in {} |-> NoValue]

\* sync_all_repos.build_properties: the payload as a function from property
\* names to values (Name and URL left out, see IssueOf).
build_properties_all(issue, repo_name, source, comments_count) ==
    LET labels == issue.labels
        milestone == issue.milestone
        assignees == issue.assignees
        properties ==
            ("Issue ID" :> ToStr(issue.number))
            @@ ("Repo" :> repo_name)
            @@ ("Status" :> map_status(issue.state, labels))
            @@ ("Source" :> source)
            @@ ("Priority" :> get_priority_from_labels(labels))
        withLabels == properties @@ ("Labels" :> labels)
        withMilestone ==
            IF milestone # NoMilestone
            THEN withLabels @@ ("Milestone" :> milestone.title)
                 @@ (IF milestone.due_on # NoValue
                     THEN ("Due Date" :> First10(milestone.due_on))
                     ELSE NoProps)
            ELSE withLabels
        withAssignee ==
            IF assignees # <<>>
            THEN withMilestone @@ ("Assignee" :> JoinLogins(assignees))
            ELSE withMilestone
    IN  withAssignee @@ ("Comments" :> comments_count)

\* sync_issue_to_notion.build_properties
build_properties_evt(issue, repo_name, comments_count) ==
    LET labels == issue.labels
        milestone == issue.milestone
        status_value == map_status_to_notion(issue.state, labels)
        properties ==
            ("Issue ID" :> ToStr(issue.number))
            @@ ("Repo" :> repo_name)
            @@ ("Status" :> status_value)
            @@ ("Source" :> "RevGen")
        withLabels == properties @@ ("Labels" :> labels)
        withMilestone ==
            IF milestone # NoMilestone
            THEN withLabels @@ ("Milestone" :> milestone.title)
            ELSE withLabels
    IN  withMilestone @@ ("Comments" :> comments_count)

\* The paragraph blocks create_notion_page makes of the body's chunks.
Paragraphs(chunks) ==
    [k \in 1..Len(chunks) |-> [type |-> "paragraph", content |-> chunks[k]]]

\* sync_issue_to_notion.build_comment_blocks: a divider, a heading and one
\* callout per comment, in the order of the comments.
build_comment_blocks(comments) ==
    IF comments = <<>> THEN <<>>
    ELSE <<[type |-> "divider"], [type |-> "heading_2"]>>
         \o [k \in 1..Len(comments) |->
                [type |-> "callout", content |-> comments[k]]]

\* No page: Python's None where a page is expected.
NoPage == [id |-> 0]

\* POST /databases/{id}/query with the filter Issue ID = str(issue_id) AND
\* Repo = repo: the matching pages, in the order of the database.
QueryDatabase(database, issue_id, repo) ==
    SelectSeq(database,
              LAMBDA page : /\ page.properties["Issue ID"] = ToStr(issue_id)
                            /\ page.properties["Repo"] = repo)

\* A plausible slip: the last match is taken instead of the first.
find_existing_page_all_last_match(resp) ==
    IF resp.status = 200
    THEN [ret |-> IF resp.results # <<>>
                  THEN resp.results[Len(resp.results)] ELSE NoPage,
          exc |-> FALSE]
    ELSE [ret |-> NoPage, exc |-> FALSE]

\* sync_all_repos.find_existing_page on a response: what it returns and
\* whether it raises.
find_existing_page_all(resp) ==
    IF resp.status = 200
    THEN [ret |-> IF resp.results # <<>> THEN resp.results[1] ELSE NoPage,
          exc |-> FALSE]
    ELSE [ret |-> NoPage, exc |-> FALSE]

\* sync_issue_to_notion.find_existing_page on a response:
\* resp.raise_for_status() comes first.
find_existing_page_evt(resp) ==
    IF resp.status # 200
    THEN [ret |-> NoPage, exc |-> TRUE]
    ELSE [ret |-> IF resp.results # <<>> THEN resp.results[1] ELSE NoPage,
          exc |-> FALSE]

\* POST /pages: the database with the new page appended.
NotionCreate(database, properties, children) ==
    Append(database,
           [id |-> Len(database) + 1, properties |-> properties,
            children |-> children])

\* PATCH /pages/{page_id} with {"properties": ...}: the properties named in
\* the payload are overwritten, the others are kept.
NotionPatch(database, page_id, properties) ==
    [k \in 1..Len(database) |->
        IF database[k].id = page_id
        THEN [database[k] EXCEPT !.properties = properties @@ @]
        ELSE database[k]]

\* PATCH /blocks/{page_id}/children: the blocks are appended to the page.
NotionAppend(database, page_id, blocks) ==
    [k \in 1..Len(database) |->
        IF database[k].id = page_id
        THEN [database[k] EXCEPT !.children = @ \o blocks]
        ELSE database[k]]

(***************************************************************************)
(* Reconciler: the loop bodies of sync_repo and backfill, and the          *)
(* event-driven sync_github_to_notion.                                     *)
(***************************************************************************)
\* sync_all_repos.create_notion_page; exc: resp.raise_for_status() raised.
create_notion_page_all(database, issue, repo_name, source, comments_count, wstatus) ==
    LET properties ==
            build_properties_all(issue, repo_name, source, comments_count)
        children == Paragraphs(BodyChildrenAll(issue.body))
    IN  IF wstatus # 200
        THEN [db |-> database, exc |-> TRUE]
        ELSE [db |-> NotionCreate(database, properties, children),
              exc |-> FALSE]

\* sync_all_repos.update_notion_page
update_notion_page_all(database, page_id, issue, repo_name, source, comments_count, wstatus) ==
    LET properties ==
            build_properties_all(issue, repo_name, source, comments_count)
    IN  IF wstatus # 200
        THEN [db |-> database, exc |-> TRUE]
        ELSE [db |-> NotionPatch(database, page_id, properties),
              exc |-> FALSE]

\* sync_issue_to_notion.create_notion_page
create_notion_page_evt(database, issue, repo_name, comments, wstatus) ==
    LET properties == build_properties_evt(issue, repo_name, Len(comments))
        children == Paragraphs(BodyChildrenEvt(issue.body))
                      \o build_comment_blocks(comments)
    IN  IF wstatus # 200
        THEN [db |-> database, exc |-> TRUE]
        ELSE [db |-> NotionCreate(database, properties, children),
              exc |-> FALSE]

\* sync_issue_to_notion.update_notion_page
update_notion_page_evt(database, page_id, issue, repo_name, comments, wstatus) ==
    LET properties == build_properties_evt(issue, repo_name, Len(comments))
    IN  IF wstatus # 200
        THEN [db |-> database, exc |-> TRUE]
        ELSE [db |-> NotionPatch(database, page_id, properties),
              exc |-> FALSE]

\* sync_issue_to_notion.append_notion_comments
append_notion_comments(database, page_id, comments, wstatus) ==
    IF comments = <<>> THEN [db |-> database, exc |-> FALSE]
    ELSE IF wstatus # 200 THEN [db |-> database, exc |-> TRUE]
    ELSE [db |-> NotionAppend(database, page_id,
                              build_comment_blocks(comments)),
          exc |-> FALSE]

\* What one attempt on an issue leaves behind: the database, the outcome,
\* and what the lookup saw and answered.
Attempt(database, outcome, resp, found) ==
    [db |-> database, outcome |-> outcome, lookup_status |-> resp.status,
     existing |-> found.ret, lookup_exc |-> found.exc]

\* The try block of sync_all_repos.sync_repo for one issue, with the
\* except clause's outcome: Created, Updated or Errored.
sync_repo_issue(database, issue, repo, cresp, qstatus, wstatus) ==
    LET source == REPO_SOURCE_MAP[repo]
        comments == get_issue_comments(cresp)
        resp == [status |-> qstatus,
                 results |-> IF qstatus = 200
                             THEN QueryDatabase(database, issue.number, repo)
                             ELSE <<>>]
        found == find_existing_page_all(resp)
        existing == found.ret
    IN  IF comments.exc \/ found.exc
        THEN Attempt(database, "Errored", resp, found)
        ELSE IF existing # NoPage
        THEN LET w == update_notion_page_all(database, existing.id, issue,
                          repo, source, Len(comments.ret), wstatus)
             IN  Attempt(w.db, IF w.exc THEN "Errored" ELSE "Updated",
                         resp, found)
        ELSE LET w == create_notion_page_all(database, issue, repo, source,
                          Len(comments.ret), wstatus)
             IN  Attempt(w.db, IF w.exc THEN "Errored" ELSE "Created",
                         resp, found)

\* The try block of backfill_issues_to_notion.backfill for one issue.
backfill_issue(database, issue, repo_name, cresp, qstatus, wstatus) ==
    LET comments == get_issue_comments(cresp)
        resp == [status |-> qstatus,
                 results |-> IF qstatus = 200
                             THEN QueryDatabase(database, issue.number,
                                                repo_name)
                             ELSE <<>>]
        found == find_existing_page_evt(resp)
        existing_page == found.ret
    IN  IF comments.exc \/ found.exc
        THEN Attempt(database, "Errored", resp, found)
        ELSE IF existing_page # NoPage
        THEN LET w == update_notion_page_evt(database, existing_page.id,
                          issue, repo_name, comments.ret, wstatus)
             IN  Attempt(w.db, IF w.exc THEN "Errored" ELSE "Updated",
                         resp, found)
        ELSE LET w == create_notion_page_evt(database, issue, repo_name,
                          comments.ret, wstatus)
             IN  Attempt(w.db, IF w.exc THEN "Errored" ELSE "Created",
                         resp, found)

\* sync_issue_to_notion.sync_github_to_notion on an event carrying an issue:
\* nothing catches an exception here, the outcome Raised ends the process.
sync_github_to_notion(database, issue, repo_name, action, comment, cresp, qstatus, wstatus, astatus) ==
    LET comments == get_issue_comments(cresp)
        resp == [status |-> qstatus,
                 results |-> IF qstatus = 200
                             THEN QueryDatabase(database, issue.number,
                                                repo_name)
                             ELSE <<>>]
        found == find_existing_page_evt(resp)
        existing_page == found.ret
    IN  IF comments.exc \/ found.exc
        THEN Attempt(database, "Raised", resp, found)
        ELSE IF existing_page # NoPage
        THEN LET w == update_notion_page_evt(database, existing_page.id,
                          issue, repo_name, comments.ret, wstatus)
             IN  IF w.exc THEN Attempt(w.db, "Raised", resp, found)
                 ELSE IF action = "created" /\ comment # <<>>
                 THEN LET a == append_notion_comments(w.db, existing_page.id,
                                   comment, astatus)
                      IN  Attempt(a.db,
                                  IF a.exc THEN "Raised" ELSE "Updated",
                                  resp, found)
                 ELSE Attempt(w.db, "Updated", resp, found)
        ELSE IF action \in {"opened", "reopened", "edited"}
        THEN LET w == create_notion_page_evt(database, issue, repo_name,
                          comments.ret, wstatus)
             IN  Attempt(w.db, IF w.exc THEN "Raised" ELSE "Created",
                         resp, found)
        ELSE Attempt(database, "Skipped", resp, found)

\* A plausible slip: the except clause does not count the failure.
count_outcome_errors_dropped(tally, outcome) ==
    CASE outcome = "Created" -> [tally EXCEPT !.created = @ + 1]
      [] outcome = "Updated" -> [tally EXCEPT !.updated = @ + 1]
      [] OTHER -> tally

\* created += 1 / updated += 1 in the try block, errors += 1 in the except
\* clause (sync_repo and backfill alike).
count_outcome(tally, outcome) ==
    CASE outcome = "Created" -> [tally EXCEPT !.created = @ + 1]
      [] outcome = "Updated" -> [tally EXCEPT !.updated = @ + 1]
      [] outcome = "Errored" -> [tally EXCEPT !.errors = @ + 1]

\* The lists get_all_issues may return for a repository: its issues in
\* listing order, some possibly missing (a failed page, see C6).
RECURSIVE SubLists(_)
SubLists(n) ==
    IF n = 0 THEN {<<>>}
    ELSE LET shorter == SubLists(n - 1)
         IN  shorter \cup {Append(l, n) : l \in shorter}
IssueLists == SubLists(Cardinality(IssueNumbers))

\* The responses of the comments endpoint in the model.
CommentResponses ==
    {[status |-> 200, json |-> <<>>], [status |-> 200, json |-> <<"c1">>],
     [status |-> 500, json |-> <<>>]}

\* The status codes of the Notion endpoints in the model.
NotionStatusCodes == {200, 500}

\* The actions of the issue events that start the event-driven sync.
\* ("reopened" and "edited" take the path of "opened").
EventActions == {"opened", "closed", "created"}

\* The databases a behaviour starts from: an empty one, and one holding the
\* page an earlier backfill created for issue 1. Neither holds two pages
\* with the same Issue ID and Repo.
InitialDatabases ==
    {<<>>,
     NotionCreate(<<>>,
                  build_properties_evt(IssueOf(1), GITHUB_REPO_NAME, 0),
                  <<>>)}

\* The positions in the database of the pages of an issue of a repository.
KeyPositions(database, number, repoName) ==
    {k \in 1..Len(database) :
        /\ database[k].properties["Issue ID"] = ToStr(number)
        /\ database[k].properties["Repo"] = repoName}

\* The id of the first of them in database order, 0 when there is none.
FirstId(database, number, repoName) ==
    LET ks == KeyPositions(database, number, repoName)
    IN  IF ks = {} THEN 0
        ELSE database[CHOOSE k \in ks : \A j \in ks : k <= j].id

NoAttempt ==
    [script |-> "none", repo |-> "", number |-> 0, before |-> 0,
     first_id |-> 0, outcome |-> "", lookup_status |-> 0,
     existing_id |-> 0, lookup_exc |-> FALSE]

\* The record of the attempt a just made on an issue: the script, the key,
\* how many pages of the key the database held before it and the first of
\* them, the outcome, and what the lookup received and answered.
LastOf(scriptName, repoName, issue, database, a) ==
    [script |-> scriptName, repo |-> repoName, number |-> issue.number,
     before |-> Cardinality(KeyPositions(database, issue.number, repoName)),
     first_id |-> FirstId(database, issue.number, repoName),
     outcome |-> a.outcome, lookup_status |-> a.lookup_status,
     existing_id |-> a.existing.id, lookup_exc |-> a.lookup_exc]

InitSync ==
    /\ db \in InitialDatabases
    /\ pc = "idle"
    /\ script = "none"
    /\ run_repo = ""
    /\ run_issues = <<>>
    /\ idx = 0
    /\ counters = [created |-> 0, updated |-> 0, errors |-> 0]
    /\ outcomes = <<>>
    /\ last = NoAttempt
    /\ runs = 0

IdleSync ==
    /\ db = <<>>
    /\ pc = "idle"
    /\ script = "none"
    /\ run_repo = ""
    /\ run_issues = <<>>
    /\ idx = 0
    /\ counters = [created |-> 0, updated |-> 0, errors |-> 0]
    /\ outcomes = <<>>
    /\ last = NoAttempt
    /\ runs = 0

\* sync_all_repos.main calls sync_repo(owner, repo): the issues are listed
\* and the counters start at zero.
StartSyncRepo ==
    /\ pc \in {"idle", "returned"}
    /\ runs < MaxRuns
    /\ \E r \in Repos, l \in IssueLists :
         /\ run_repo' = r
         /\ run_issues' = l
         /\ pc' = IF l = <<>> THEN "returned" ELSE "loop"
    /\ script' = "sync_all_repos"
    /\ idx' = 0
    /\ counters' = [created |-> 0, updated |-> 0, errors |-> 0]
    /\ outcomes' = <<>>
    /\ runs' = runs + 1
    /\ UNCHANGED <<db, last>>
    /\ UNCHANGED <<mapVars, bodyVars, fetchVars, extVars>>

\* backfill() lists the issues of GITHUB_REPO_NAME.
StartBackfill ==
    /\ pc \in {"idle", "returned"}
    /\ runs < MaxRuns
    /\ \E l \in IssueLists :
         /\ run_issues' = l
         /\ pc' = IF l = <<>> THEN "returned" ELSE "loop"
    /\ run_repo' = GITHUB_REPO_NAME
    /\ script' = "backfill"
    /\ idx' = 0
    /\ counters' = [created |-> 0, updated |-> 0, errors |-> 0]
    /\ outcomes' = <<>>
    /\ runs' = runs + 1
    /\ UNCHANGED <<db, last>>
    /\ UNCHANGED <<mapVars, bodyVars, fetchVars, extVars>>

\* The bookkeeping common to the two loops after the attempt a.
LoopStep(issue, a) ==
    /\ db' = a.db
    /\ counters' = count_outcome(counters, a.outcome)
    /\ outcomes' = Append(outcomes, a.outcome)
    /\ last' = LastOf(script, run_repo, issue, db, a)
    /\ idx' = idx + 1
    /\ pc' = IF idx + 1 = Len(run_issues) THEN "returned" ELSE "loop"
    /\ UNCHANGED <<script, run_repo, run_issues, runs>>
    /\ UNCHANGED <<mapVars, bodyVars, fetchVars, extVars>>

\* One iteration of the for loop of sync_repo.
SyncRepoIssue ==
    /\ pc = "loop"
    /\ script = "sync_all_repos"
    /\ \E cresp \in CommentResponses, qstatus \in NotionStatusCodes,
          wstatus \in NotionStatusCodes :
         LET issue == IssueOf(run_issues[idx + 1])
         IN  LoopStep(issue,
                      sync_repo_issue(db, issue, run_repo, cresp, qstatus,
                                      wstatus))

\* One iteration of the for loop of backfill.
BackfillIssue ==
    /\ pc = "loop"
    /\ script = "backfill"
    /\ \E cresp \in CommentResponses, qstatus \in NotionStatusCodes,
          wstatus \in NotionStatusCodes :
         LET issue == IssueOf(run_issues[idx + 1])
         IN  LoopStep(issue,
                      backfill_issue(db, issue, run_repo, cresp, qstatus,
                                     wstatus))

\* main() of sync_issue_to_notion.py on an issue event of GITHUB_REPO_NAME.
\* The runs are sequential: no event is handled while a loop is running.
EventSync ==
    /\ pc \in {"idle", "returned"}
    /\ runs < MaxRuns
    /\ \E n \in IssueNumbers, action \in EventActions,
          cresp \in CommentResponses, qstatus \in NotionStatusCodes,
          wstatus \in NotionStatusCodes, astatus \in NotionStatusCodes :
         LET issue == IssueOf(n)
             comment == IF action = "created" THEN <<"c1">> ELSE <<>>
             a == sync_github_to_notion(db, issue, GITHUB_REPO_NAME, action,
                                        comment, cresp, qstatus, wstatus,
                                        astatus)
         IN  /\ db' = a.db
             /\ last' = LastOf("event", GITHUB_REPO_NAME, issue, db, a)
    /\ script' = "event"
    /\ run_repo' = GITHUB_REPO_NAME
    /\ pc' = "idle"
    /\ run_issues' = <<>>
    /\ idx' = 0
    /\ counters' = [created |-> 0, updated |-> 0, errors |-> 0]
    /\ outcomes' = <<>>
    /\ runs' = runs + 1
    /\ UNCHANGED <<mapVars, bodyVars, fetchVars, extVars>>

Next ==
    \/ StartSyncRepo
    \/ StartBackfill
    \/ SyncRepoIssue
    \/ BackfillIssue
    \/ EventSync

(***************************************************************************)
(* The issue on GitHub, edited by its users between the passes, and the    *)
(* forward passes on it: one iteration of sync_repo's loop, one of         *)
(* backfill's loop, and the event-driven sync_github_to_notion.            *)
(***************************************************************************)
\* The label sets, milestones and assignees issue 1 may carry.
ForwardLabelSets ==
    {{}, {"blocked"}, {"low", "bug"}, {"urgent", "medium", "low-priority"}}
Milestones ==
    {NoMilestone, [title |-> "v1", due_on |-> "2026-12-31T08:00:00Z"]}
AssigneeLists == {<<>>, <<"alice", "bob">>}

\* Issue 1 of GITHUB_REPO_NAME, in every combination of the fields the
\* forward mapping reads.
IssueVersions ==
    {[number |-> 1, state |-> s, labels |-> L, milestone |-> m,
      assignees |-> a, body |-> EmptyText] :
        s \in IssueStates, L \in ForwardLabelSets, m \in Milestones,
        a \in AssigneeLists}

\* The label sets a user of GitHub gives the issue in an edit.
EditLabelSets == {{}, {"blocked"}}

NoForward ==
    [script |-> "none", outcome |-> "", issue |-> IssueOf(1),
     cresp |-> [status |-> 0, json |-> <<>>], page_id |-> 0, sent |-> NoProps]

\* The id of the page the attempt a wrote: the page it created (the last of
\* the database) or the page it found and updated; 0 when it wrote none.
WrittenId(a) ==
    CASE a.outcome = "Created" -> a.db[Len(a.db)].id
      [] a.outcome = "Updated" -> a.existing.id
      [] OTHER -> 0

\* The record of a forward attempt: the script, the outcome, the issue as it
\* was read, the response of the comments endpoint, the page written and
\* the properties payload the script built for it.
ForwardOf(scriptName, issue, cresp, sent, a) ==
    [script |-> scriptName, outcome |-> a.outcome, issue |-> issue,
     cresp |-> cresp, page_id |-> WrittenId(a), sent |-> sent]

\* No script is inside a bidirectional invocation.
NoInvocation == s_pc \in {"idle", "complete", "raised"}

\* The bookkeeping common to the forward passes after the attempt a.
ForwardStep(scriptName, cresp, sent, a) ==
    /\ db' = a.db
    /\ fw_last' = ForwardOf(scriptName, gh, cresp, sent, a)
    /\ fresh' = IF scriptName # "sync_all_repos" /\ WrittenId(a) # 0
                THEN fresh \cup {WrittenId(a)} ELSE fresh
    /\ runs' = runs + 1
    /\ UNCHANGED gh

\* sync_repo's loop reaches the issue.
ForwardSyncRepo ==
    /\ NoInvocation
    /\ runs < MaxRuns
    /\ \E cresp \in CommentResponses, qstatus \in NotionStatusCodes,
          wstatus \in NotionStatusCodes :
         LET a == sync_repo_issue(db, gh, GITHUB_REPO_NAME, cresp, qstatus,
                                  wstatus)
             sent == build_properties_all(gh, GITHUB_REPO_NAME,
                         REPO_SOURCE_MAP[GITHUB_REPO_NAME],
                         Len(get_issue_comments(cresp).ret))
         IN  ForwardStep("sync_all_repos", cresp, sent, a)
    /\ UNCHANGED <<pc, script, run_repo, run_issues, idx, counters, outcomes,
                   last>>
    /\ UNCHANGED <<mapVars, bodyVars, fetchVars, sweepVars, enumVars>>

\* backfill's loop reaches the issue.
ForwardBackfill ==
    /\ NoInvocation
    /\ runs < MaxRuns
    /\ \E cresp \in CommentResponses, qstatus \in NotionStatusCodes,
          wstatus \in NotionStatusCodes :
         LET a == backfill_issue(db, gh, GITHUB_REPO_NAME, cresp, qstatus,
                                 wstatus)
             sent == build_properties_evt(gh, GITHUB_REPO_NAME,
                         Len(get_issue_comments(cresp).ret))
         IN  ForwardStep("backfill", cresp, sent, a)
    /\ UNCHANGED <<pc, script, run_repo, run_issues, idx, counters, outcomes,
                   last>>
    /\ UNCHANGED <<mapVars, bodyVars, fetchVars, sweepVars, enumVars>>

\* main() of sync_issue_to_notion.py on an event of the issue.
ForwardEvent ==
    /\ NoInvocation
    /\ runs < MaxRuns
    /\ \E action \in EventActions, cresp \in CommentResponses,
          qstatus \in NotionStatusCodes, wstatus \in NotionStatusCodes,
          astatus \in NotionStatusCodes :
         LET comment == IF action = "created" THEN <<"c1">> ELSE <<>>
             a == sync_github_to_notion(db, gh, GITHUB_REPO_NAME, action,
                                        comment, cresp, qstatus, wstatus,
                                        astatus)
             sent == build_properties_evt(gh, GITHUB_REPO_NAME,
                         Len(get_issue_comments(cresp).ret))
         IN  ForwardStep("event", cresp, sent, a)
    /\ UNCHANGED <<pc, script, run_repo, run_issues, idx, counters, outcomes,
                   last>>
    /\ UNCHANGED <<mapVars, bodyVars, fetchVars, sweepVars, enumVars>>

\* What an edit on GitHub leaves alone; no page is written from the issue
\* as it stands any more.
IssueEdited ==
    /\ fresh' = {}
    /\ UNCHANGED <<fw_last, syncVars>>
    /\ UNCHANGED <<mapVars, bodyVars, fetchVars, sweepVars, enumVars>>

\* A user of GitHub closes or reopens the issue.
SetIssueState ==
    /\ NoInvocation
    /\ \E s \in IssueStates \ {gh.state} : gh' = [gh EXCEPT !.state = s]
    /\ IssueEdited

\* A user of GitHub replaces the labels of the issue.
SetIssueLabels ==
    /\ NoInvocation
    /\ \E L \in EditLabelSets \ {gh.labels} : gh' = [gh EXCEPT !.labels = L]
    /\ IssueEdited

\* A user of GitHub sets or removes the milestone and the assignees.
SetIssueMilestone ==
    /\ NoInvocation
    /\ \E m \in Milestones, a \in AssigneeLists :
         /\ <<m, a>> # <<gh.milestone, gh.assignees>>
         /\ gh' = [gh EXCEPT !.milestone = m, !.assignees = a]
    /\ IssueEdited

\* sync_repo's loop reaches the issue between two bidirectional
\* invocations (the iteration of ForwardSyncRepo, not recorded in fw_last).
SyncRepoPass ==
    /\ NoInvocation
    /\ runs < MaxRuns
    /\ \E cresp \in CommentResponses, qstatus \in NotionStatusCodes,
          wstatus \in NotionStatusCodes :
         LET a == sync_repo_issue(db, gh, GITHUB_REPO_NAME, cresp, qstatus,
                                  wstatus)
         IN  db' = a.db
    /\ runs' = runs + 1
    /\ UNCHANGED <<gh, fw_last, fresh, pc, script, run_repo, run_issues, idx,
                   counters, outcomes, last>>
    /\ UNCHANGED <<mapVars, bodyVars, fetchVars, sweepVars, enumVars>>

InitForward ==
    /\ gh \in IssueVersions
    /\ fw_last = NoForward
    /\ fresh = {}

IdleForward ==
    /\ gh = IssueOf(1)
    /\ fw_last = NoForward
    /\ fresh = {}

NextForward ==
    \/ ForwardSyncRepo
    \/ ForwardBackfill
    \/ ForwardEvent
    \/ SetIssueState
    \/ SetIssueLabels
    \/ SetIssueMilestone

(***************************************************************************)
(* Bidirectional invocation: main_bidirectional and the Notion -> GitHub   *)
(* sweep sync_notion_to_github.                                            *)
(***************************************************************************)
\* No issue: the {} get_issue_details returns on a failed request.
NoIssue == [number |-> 0]

\* The status codes of the GitHub endpoints in the model.
GitHubStatusCodes == {200, 500}

\* int(s) on the Issue ID texts of the model: the number, or ValueError.
ParseInt(s) ==
    CASE s = "1" -> [ret |-> 1, exc |-> FALSE]
      [] s = "2" -> [ret |-> 2, exc |-> FALSE]
      [] OTHER -> [ret |-> 0, exc |-> TRUE]

\* GET /repos/{owner}/{repo}/issues/{issue_number}: the issue when the
\* request names it and the server answers, 404 for an issue GitHub does not
\* hold, the failure status otherwise.
GetIssueResponse(issue, repo_name, issue_number, status) ==
    IF repo_name # GITHUB_REPO_NAME \/ issue_number # issue.number
    THEN [status |-> 404, json |-> NoIssue]
    ELSE IF status = 200 THEN [status |-> 200, json |-> issue]
    ELSE [status |-> status, json |-> NoIssue]

\* sync_issue_to_notion.get_issue_details
get_issue_details(resp) ==
    IF resp.status = 200 THEN resp.json ELSE NoIssue

\* update_github_issue with {"state": ...} (close_github_issue and
\* reopen_github_issue): the issue after the PATCH; exc:
\* resp.raise_for_status() raised.
update_github_state(issue, state, wstatus) ==
    IF wstatus # 200 THEN [gh |-> issue, exc |-> TRUE]
    ELSE [gh |-> [issue EXCEPT !.state = state], exc |-> FALSE]

\* update_github_labels: the PATCH replaces the labels of the issue.
update_github_labels(issue, labels, wstatus) ==
    IF wstatus # 200 THEN [gh |-> issue, exc |-> TRUE]
    ELSE [gh |-> [issue EXCEPT !.labels = labels], exc |-> FALSE]

\* A plausible slip: a record without a status counts as finished.
notion_status_of_default_done(props) ==
    IF "Status" \in DOMAIN props /\ props["Status"] # NoValue
    THEN props["Status"] ELSE "Done"

\* notion_status = status_prop.get("name", "Backlog") if status_prop else
\* "Backlog"; an empty select is NoValue.
notion_status_of(props) ==
    IF "Status" \in DOMAIN props /\ props["Status"] # NoValue
    THEN props["Status"] ELSE "Backlog"

\* notion_labels = [l["name"] for l in labels_prop]
notion_labels_of(props) ==
    IF "Labels" \in DOMAIN props THEN props["Labels"] ELSE {}

\* A plausible slip: only labels missing on GitHub count as a difference.
labels_differ_missing_only(gh_labels, notion_labels) ==
    ~(notion_labels \subseteq gh_labels)

\* set(gh_labels) != set(notion_labels)
labels_differ(gh_labels, notion_labels) == gh_labels # notion_labels

\* What the loop body leaves behind for one page: the issue on GitHub, the
\* calls issued to GitHub in their order, whether the source issue was
\* fetched and as what, the outcome (Skipped: a continue; Synced: the end of
\* the try block; Errored: the except clause), and whether an exception
\* left the loop.
RecordStep(page, issue, fetched, calls, outcome) ==
    [page |-> page, gh |-> issue, fetched |-> fetched, calls |-> calls,
     outcome |-> outcome, escaped |-> FALSE]

\* A plausible slip: no except clause around the loop body.
sweep_fault_uncaught(page, issue, fetched, calls) ==
    [page |-> page, gh |-> issue, fetched |-> fetched, calls |-> calls,
     outcome |-> "Errored", escaped |-> TRUE]

\* except Exception as e: print(...); continue
sweep_fault(page, issue, fetched, calls) ==
    RecordStep(page, issue, fetched, calls, "Errored")

\* The body of the for loop of sync_notion_to_github on one page, on the
\* issue as it stands on GitHub; fstatus, sstatus and lstatus are the status
\* codes of the issue fetch, of the state write and of the label write.
\* GITHUB_REPO_NAME of the environment is "owner/repo", so that owner is
\* not empty; the model's GITHUB_REPO_NAME is its repo part.
sync_notion_to_github_page(page, issue, fstatus, sstatus, lstatus) ==
    LET props == page.properties
        issue_id_prop ==
            IF "Issue ID" \in DOMAIN props THEN props["Issue ID"] ELSE ""
        repo_prop == IF "Repo" \in DOMAIN props THEN props["Repo"] ELSE ""
    IN  IF issue_id_prop = "" \/ repo_prop = ""
        THEN RecordStep(page, issue, NoIssue, <<>>, "Skipped")
        ELSE IF ParseInt(issue_id_prop).exc
        THEN sweep_fault(page, issue, NoIssue, <<>>)
        ELSE
        LET issue_number == ParseInt(issue_id_prop).ret
            repo_name == repo_prop
            notion_status == notion_status_of(props)
            notion_labels == notion_labels_of(props)
            gh_issue == get_issue_details(
                            GetIssueResponse(issue, repo_name, issue_number,
                                             fstatus))
        IN  IF gh_issue = NoIssue
            THEN RecordStep(page, issue, NoIssue, <<>>, "Skipped")
            ELSE
            LET gh_state == gh_issue.state
                gh_labels == gh_issue.labels
                expected_gh_state == map_status_to_github(notion_status)
                state_call ==
                    IF gh_state # expected_gh_state
                    THEN <<IF expected_gh_state = "closed"
                           THEN [call |-> "close", labels |-> {}]
                           ELSE [call |-> "reopen", labels |-> {}]>>
                    ELSE <<>>
                s == IF state_call # <<>>
                     THEN update_github_state(issue, expected_gh_state,
                                              sstatus)
                     ELSE [gh |-> issue, exc |-> FALSE]
            IN  IF s.exc THEN sweep_fault(page, s.gh, gh_issue, state_call)
                ELSE IF labels_differ(gh_labels, notion_labels)
                THEN LET l == update_github_labels(s.gh, notion_labels,
                                                   lstatus)
                         calls == Append(state_call,
                                         [call |-> "labels",
                                          labels |-> notion_labels])
                     IN  IF l.exc
                         THEN sweep_fault(page, l.gh, gh_issue, calls)
                         ELSE RecordStep(page, l.gh, gh_issue, calls,
                                         "Synced")
                ELSE RecordStep(page, s.gh, gh_issue, state_call, "Synced")

\* What an event payload may hold when main_bidirectional starts: no
\* payload at all (GITHUB_EVENT_PATH unset), a payload without an issue (a
\* scheduled run), or an issue event with its action.
BidiEvents == {"unset", "schedule", "opened", "closed"}

\* A page of the database as a user of Notion may have left it: the Issue
\* ID text, the Status select (NoValue when emptied) and the Labels.
UserPage(id, issue_id, status, labels) ==
    [id |-> id,
     properties |-> ("Issue ID" :> issue_id) @@ ("Repo" :> GITHUB_REPO_NAME)
                    @@ ("Status" :> status) @@ ("Source" :> "RevGen")
                    @@ ("Labels" :> labels) @@ ("Comments" :> 0),
     children |-> <<>>]

\* The statuses a page of issue 1 starts with: values of the select, a
\* value the lookup table does not have, and the empty select.
SweepStatuses == {"Backlog", "Done", "Archived", NoValue}

\* The databases a sweep behaviour starts from: at most one page of issue 1,
\* after at most one page that is not of an issue GitHub holds (an empty
\* Issue ID, a malformed one, an issue that is not there).
SweepDatabases ==
    LET others == {<<>>} \cup {<<UserPage(1, t, "Backlog", {})>> :
                                  t \in {"", "abc", "2"}}
        mine(id) == {<<>>} \cup {<<UserPage(id, "1", st, L)>> :
                                    st \in SweepStatuses, L \in EditLabelSets}
    IN  UNION {{o \o m : m \in mine(Len(o) + 1)} : o \in others}

NoRecordStep ==
    [page |-> NoPage, gh |-> IssueOf(1), fetched |-> NoIssue, calls |-> <<>>,
     outcome |-> "", escaped |-> FALSE, stable |-> FALSE]

\* Whether a page of the issue that page is about was written by a forward
\* pass of sync_issue_to_notion.py from the issue as it stands on GitHub.
StableFor(page) ==
    \E k \in 1..Len(db) :
        /\ db[k].id \in fresh
        /\ db[k].properties["Issue ID"] = page.properties["Issue ID"]
        /\ db[k].properties["Repo"] = page.properties["Repo"]

\* main_bidirectional up to the end of the forward pass: "if
\* GITHUB_EVENT_PATH: sync_github_to_notion()". An exception of the forward
\* pass ends the process.
BidiForward ==
    /\ NoInvocation
    /\ runs < MaxRuns
    /\ \E event \in BidiEvents, cresp \in CommentResponses,
          qstatus \in NotionStatusCodes, wstatus \in NotionStatusCodes :
         IF event = "unset"
         THEN /\ s_phases' = <<>>
              /\ s_pc' = "forwarded"
              /\ UNCHANGED <<db, fresh>>
         ELSE IF event = "schedule"
         THEN /\ s_phases' = <<"forward">>
              /\ s_pc' = "forwarded"
              /\ UNCHANGED <<db, fresh>>
         ELSE LET a == sync_github_to_notion(db, gh, GITHUB_REPO_NAME,
                           event, <<>>, cresp, qstatus, wstatus, 200)
              IN  /\ db' = a.db
                  /\ fresh' = IF WrittenId(a) # 0
                              THEN fresh \cup {WrittenId(a)} ELSE fresh
                  /\ s_phases' = <<"forward">>
                  /\ s_pc' = IF a.outcome = "Raised" THEN "raised"
                             ELSE "forwarded"
    /\ runs' = runs + 1
    /\ s_pages' = <<>>
    /\ s_count' = 0
    /\ s_idx' = 0
    /\ s_last' = NoRecordStep
    /\ s_faults' = 0
    /\ UNCHANGED <<gh, fw_last, pc, script, run_repo, run_issues, idx, counters,
                   outcomes, last>>
    /\ UNCHANGED <<mapVars, bodyVars, fetchVars, enumVars>>

\* sync_notion_to_github up to its for loop: the return when GITHUB_TOKEN is
\* not set, else pages = get_all_notion_pages(), whose query answers for the
\* whole database in the model or fails and raises.
BidiEnumerate ==
    /\ s_pc = "forwarded"
    /\ \E token \in BOOLEAN, qstatus \in NotionStatusCodes :
         IF ~token
         THEN /\ s_pc' = "complete"
              /\ UNCHANGED <<s_phases, s_pages, s_count>>
         ELSE /\ s_phases' = Append(s_phases, "sweep")
              /\ IF qstatus # 200
                 THEN /\ s_pc' = "raised"
                      /\ UNCHANGED <<s_pages, s_count>>
                 ELSE /\ s_pages' = db
                      /\ s_count' = Len(db)
                      /\ s_pc' = IF db = <<>> THEN "complete" ELSE "sweep"
    /\ UNCHANGED <<s_idx, s_last, s_faults>>
    /\ UNCHANGED <<forwardVars, syncVars>>
    /\ UNCHANGED <<mapVars, bodyVars, fetchVars, enumVars>>

\* One iteration of the for loop of sync_notion_to_github, and the
\* completion step after the last one.
SweepRecord ==
    /\ s_pc = "sweep"
    /\ \E fstatus \in GitHubStatusCodes, sstatus \in GitHubStatusCodes,
          lstatus \in GitHubStatusCodes :
         LET page == Head(s_pages)
             r == sync_notion_to_github_page(page, gh, fstatus, sstatus,
                                             lstatus)
         IN  /\ gh' = r.gh
             /\ s_last' = [page |-> r.page, gh |-> r.gh,
                           fetched |-> r.fetched, calls |-> r.calls,
                           outcome |-> r.outcome, escaped |-> r.escaped,
                           stable |-> StableFor(page)]
             /\ s_faults' = IF r.outcome = "Errored" THEN s_faults + 1
                            ELSE s_faults
             /\ fresh' = IF r.gh # gh THEN {} ELSE fresh
             /\ s_pc' = IF r.escaped THEN "raised"
                        ELSE IF Tail(s_pages) = <<>> THEN "complete"
                        ELSE "sweep"
    /\ s_pages' = Tail(s_pages)
    /\ s_idx' = s_idx + 1
    /\ UNCHANGED <<s_phases, s_count, fw_last, syncVars>>
    /\ UNCHANGED <<mapVars, bodyVars, fetchVars, enumVars>>

IdleSweep ==
    /\ s_pc = "idle"
    /\ s_phases = <<>>
    /\ s_pages = <<>>
    /\ s_count = 0
    /\ s_idx = 0
    /\ s_last = NoRecordStep
    /\ s_faults = 0

NextSweep ==
    \/ BidiForward
    \/ BidiEnumerate
    \/ SweepRecord

(***************************************************************************)
(* get_all_notion_pages: the enumeration of the database by cursor.        *)
(***************************************************************************)
\* POST /databases/{id}/query with an empty payload or a start_cursor: the
\* pages from the cursor on (from the first one without a cursor), at most
\* page_size of them, has_more telling whether pages remain and next_cursor
\* where they start (0, None, when none remains). The pages are told by
\* their positions 1..total and a cursor by the position it points at.
QueryAll(store, cursor) ==
    LET from == IF cursor = 0 THEN 1 ELSE cursor
        to == Min(from + store.page_size - 1, store.total)
    IN  [results |-> [k \in 1..(to - from + 1) |-> from + k - 1],
         has_more |-> to < store.total,
         next_cursor |-> IF to < store.total THEN to + 1 ELSE 0]

\* A plausible slip: the loop takes the first response for the whole.
get_all_notion_pages_step_first_only(pages, status, data) ==
    IF status # 200
    THEN [all_pages |-> pages, has_more |-> TRUE, start_cursor |-> 0,
          exc |-> TRUE]
    ELSE [all_pages |-> pages \o data.results, has_more |-> FALSE,
          start_cursor |-> data.next_cursor, exc |-> FALSE]

\* One iteration of the while loop of get_all_notion_pages on a response
\* with the given status and JSON body: the accumulator, has_more and
\* start_cursor after it; exc: resp.raise_for_status() raised.
get_all_notion_pages_step(pages, status, data) ==
    IF status # 200
    THEN [all_pages |-> pages, has_more |-> TRUE, start_cursor |-> 0,
          exc |-> TRUE]
    ELSE [all_pages |-> pages \o data.results, has_more |-> data.has_more,
          start_cursor |-> data.next_cursor, exc |-> FALSE]

InitEnum ==
    /\ n_store \in [total : 0..MaxRecords, page_size : 1..MaxQueryPage]
    /\ n_pc = "loop"
    /\ has_more = TRUE
    /\ start_cursor = 0
    /\ all_pages = <<>>
    /\ n_asked = <<>>

IdleEnum ==
    /\ n_store = [total |-> 0, page_size |-> 1]
    /\ n_pc = "idle"
    /\ has_more = TRUE
    /\ start_cursor = 0
    /\ all_pages = <<>>
    /\ n_asked = <<>>

\* One request of get_all_notion_pages and what the loop does with its
\* response; the function returns when has_more is false.
QueryNext ==
    /\ n_pc = "loop"
    /\ has_more
    /\ \E status \in NotionStatusCodes :
         LET data == QueryAll(n_store, start_cursor)
             r == get_all_notion_pages_step(all_pages, status, data)
         IN  /\ all_pages' = r.all_pages
             /\ n_asked' = Append(n_asked, start_cursor)
             /\ IF r.exc
                THEN /\ n_pc' = "raised"
                     /\ UNCHANGED <<has_more, start_cursor>>
                ELSE /\ has_more' = r.has_more
                     /\ start_cursor' = r.start_cursor
                     /\ n_pc' = IF r.has_more THEN "loop" ELSE "returned"
    /\ UNCHANGED n_store
    /\ UNCHANGED <<mapVars, bodyVars, fetchVars, syncVars, forwardVars,
                   sweepVars>>

NextEnum == QueryNext

(***************************************************************************)
(* Specifications.                                                         *)
(***************************************************************************)
\* The variables of the reconcile loops other than the database.
IdleLoop ==
    /\ pc = "idle"
    /\ script = "none"
    /\ run_repo = ""
    /\ run_issues = <<>>
    /\ idx = 0
    /\ counters = [created |-> 0, updated |-> 0, errors |-> 0]
    /\ outcomes = <<>>
    /\ last = NoAttempt
    /\ runs = 0

IdleExt == IdleForward /\ IdleSweep /\ IdleEnum

MapInit == InitMap /\ IdleBody /\ IdleFetch /\ IdleSync /\ IdleExt
SpecMap == MapInit /\ [][NextMap]_vars

BodyInit == IdleMap /\ InitBody /\ IdleFetch /\ IdleSync /\ IdleExt
SpecBody == BodyInit /\ [][NextBody]_vars

FetchInit == IdleMap /\ IdleBody /\ InitFetch /\ IdleSync /\ IdleExt
SpecFetch == FetchInit /\ [][NextFetch]_vars

Init == IdleMap /\ IdleBody /\ IdleFetch /\ InitSync /\ IdleExt
Spec == Init /\ [][Next]_vars

\* The forward passes start from an empty database.
ForwardInit ==
    /\ IdleMap /\ IdleBody /\ IdleFetch /\ IdleLoop /\ IdleSweep /\ IdleEnum
    /\ db = <<>>
    /\ InitForward
SpecForward == ForwardInit /\ [][NextForward]_vars

\* The sweep starts from a database its users have edited and an issue
\* without milestone and assignees.
SweepInit ==
    /\ IdleMap /\ IdleBody /\ IdleFetch /\ IdleLoop /\ IdleSweep /\ IdleEnum
    /\ db \in SweepDatabases
    /\ gh \in {v \in IssueVersions :
                 /\ v.labels \in EditLabelSets
                 /\ v.milestone = NoMilestone
                 /\ v.assignees = <<>>}
    /\ fw_last = NoForward
    /\ fresh = {}
SpecSweep == SweepInit /\ [][NextSweep]_vars
\* A running sweep goes on: the process takes the next iteration of its loop.
FairSweep == SpecSweep /\ WF_vars(SweepRecord)

\* Both scripts on one database: the passes of sync_all_repos and the
\* bidirectional invocations, from the databases of Spec.
BothInit ==
    /\ IdleMap /\ IdleBody /\ IdleFetch /\ IdleLoop /\ IdleSweep /\ IdleEnum
    /\ db \in InitialDatabases
    /\ gh \in {v \in IssueVersions :
                 /\ v.labels \in EditLabelSets
                 /\ v.milestone = NoMilestone
                 /\ v.assignees = <<>>}
    /\ fw_last = NoForward
    /\ fresh = {}
NextBoth ==
    \/ SyncRepoPass
    \/ SetIssueState
    \/ SetIssueLabels
    \/ BidiForward
    \/ BidiEnumerate
    \/ SweepRecord
SpecBoth == BothInit /\ [][NextBoth]_vars

EnumInit ==
    /\ IdleMap /\ IdleBody /\ IdleFetch /\ IdleSync /\ IdleForward
    /\ IdleSweep
    /\ InitEnum
SpecEnum == EnumInit /\ [][NextEnum]_vars
\* A running enumeration goes on: the process sends its next request.
FairEnum == SpecEnum /\ WF_vars(QueryNext)

(***************************************************************************)
(* C1: the forward status mapping returns "Done" if and only if the issue  *)
(* state is "closed", whatever the labels, in both scripts.                *)
(***************************************************************************)
C1_DoneIffClosed ==
    /\ m_all # NoValue => (m_all = "Done" <=> m_state = "closed")
    /\ m_evt # NoValue => (m_evt = "Done" <=> m_state = "closed")

\* A closed issue carrying a status keyword label has been mapped by both.
C1_Witness ==
    /\ m_state = "closed"
    /\ "blocked" \in m_labels
    /\ m_all = "Done"
    /\ m_evt = "Done"

(***************************************************************************)
(* C9: for an open issue the status follows the precedence blocked, then   *)
(* in-progress / in progress, then review / under-review, then Backlog,    *)
(* over the lower-cased label names.                                       *)
(***************************************************************************)
HasBlocked(L) == \E l \in L : Lower(l) = "blocked"
HasProgress(L) == \E l \in L : Lower(l) \in {"in-progress", "in progress"}
HasReview(L) == \E l \in L : Lower(l) \in {"review", "under-review"}

PrecedenceHolds(status, L) ==
    /\ HasBlocked(L) => status = "Blocked"
    /\ ~HasBlocked(L) /\ HasProgress(L) => status = "In Progress"
    /\ ~HasBlocked(L) /\ ~HasProgress(L) /\ HasReview(L)
          => status = "Under Review"
    /\ ~HasBlocked(L) /\ ~HasProgress(L) /\ ~HasReview(L)
          => status = "Backlog"

C9_LabelPrecedence ==
    m_state = "open" =>
        /\ m_all # NoValue => PrecedenceHolds(m_all, m_labels)
        /\ m_evt # NoValue => PrecedenceHolds(m_evt, m_labels)

\* An open issue labelled blocked, in-progress and review maps to Blocked.
C9_Witness ==
    /\ m_state = "open"
    /\ {"Blocked", "in-progress", "review"} \subseteq m_labels
    /\ m_all = "Blocked"
    /\ m_evt = "Blocked"

(***************************************************************************)
(* C10: mapping a state forward to a Notion status and back reproduces the *)
(* state: closed comes back closed and open comes back open, for every     *)
(* label set.                                                              *)
(***************************************************************************)
C10_RoundTrip == m_back # NoValue => m_back = m_state

\* Both directions of the round trip have happened on labelled issues.
C10_Witness ==
    /\ m_back = "closed"
    /\ m_state = "closed"
    /\ m_evt = "Done"
    /\ m_labels # {}

(***************************************************************************)
(* C5: get_all_issues returns exactly the non-pull-request items of the    *)
(* repository for both states, requesting the next page as long as the     *)
(* source served a full page of 100 items: with no failed request, the     *)
(* result is every non-pull-request open item followed by every such       *)
(* closed item, and a state of exactly 100 issues takes 2 page requests.   *)
(***************************************************************************)
\* The non-pull-request items among the first upto items of state s.
NonPrItems(src, s, upto) ==
    SelectSeq([k \in 1..upto |-> Item(src, s, k)],
              LAMBDA i : ~IsPullRequest(i))

Returned == f_pc \in {"done", "comments"}

C5_AllIssuesListed ==
    Returned /\ f_failed = {} =>
        /\ all_issues = NonPrItems(f_src, "open", f_src.n["open"])
                          \o NonPrItems(f_src, "closed", f_src.n["closed"])
        /\ \A s \in IssueStates :
              f_src.n[s] = 100 /\ f_src.prs = {} => f_requests[s] = 2

(***************************************************************************)
(* C6: a non-200 response while listing issues never raises; it ends the   *)
(* pagination of the state being fetched only: the items of the pages      *)
(* fetched so far stay in the result and the closed state is still         *)
(* enumerated after a failure on the open one. get_issue_comments returns  *)
(* an empty sequence on a non-200 response.                                *)
(***************************************************************************)
\* The requests of state s that were answered with status 200.
Answered(s) == f_requests[s] - (IF s \in f_failed THEN 1 ELSE 0)
\* The items of state s that the answered pages carried.
Covered(s) == Min(Answered(s) * PerPage, f_src.n[s])

C6_Non200Tolerated ==
    /\ f_pc # "raised"
    /\ all_issues = NonPrItems(f_src, "open", Covered("open"))
                      \o NonPrItems(f_src, "closed", Covered("closed"))
    /\ Returned => f_requests["closed"] >= 1
    /\ f_pc = "comments" /\ f_cresp.status # 200 => f_comments = <<>>

\* The open listing failed on its second page, the first page's items were
\* kept, the closed items were listed after it, and a comment fetch failed.
C6_Witness ==
    /\ f_pc = "comments"
    /\ "open" \in f_failed
    /\ f_requests["open"] = 2
    /\ \E i \in 1..Len(all_issues) : all_issues[i] <= f_src.n["open"]
    /\ \E i \in 1..Len(all_issues) : all_issues[i] > f_src.n["open"]
    /\ f_cresp.status = 500
    /\ f_comments = <<>>

(***************************************************************************)
(* C8: when a record is created for an issue with a non-empty body, the    *)
(* body is truncated to 4000 characters and split into ordered segments of *)
(* at most 2000 characters whose concatenation is exactly the first 4000   *)
(* characters of the body; a body of 5000 characters gives 2 segments.     *)
(***************************************************************************)
\* The segments, in their order, are non-empty, follow one another without
\* a gap or an overlap and together make the first 4000 characters of the
\* body (its characters 1..4000, or all of them when it is shorter).
ConcatIsPrefix(children, body) ==
    /\ Len(children) >= 1
    /\ children[1].lo = 1
    /\ \A k \in 1..Len(children) : children[k].lo <= children[k].hi
    /\ \A k \in 1..(Len(children) - 1) :
          children[k + 1].lo = children[k].hi + 1
    /\ children[Len(children)].hi = Min(4000, TextLen(body))

SegmentsAsClaimed(children, body) ==
    /\ \A k \in 1..Len(children) : TextLen(children[k]) <= 2000
    /\ ConcatIsPrefix(children, body)
    /\ TextLen(body) = 5000 => Len(children) = 2

C8_BodySegments ==
    TextLen(b_body) > 0 =>
        /\ "sync_all_repos" \in b_built => SegmentsAsClaimed(b_all, b_body)
        /\ "sync_issue_to_notion" \in b_built
              => SegmentsAsClaimed(b_evt, b_body)

\* What does hold on the truncating path alone.
C8_AllReposPathOnly ==
    TextLen(b_body) > 0 /\ "sync_all_repos" \in b_built
        => SegmentsAsClaimed(b_all, b_body)

(***************************************************************************)
(* C2: re-running the reconcile loop (sync_repo, backfill) on an issue     *)
(* that already has its record does not create: the outcome is Updated     *)
(* (Errored when the attempt raised, see C4), never Created, and the       *)
(* number of pages of its (Issue ID, Repo) stays at 1.                     *)
(***************************************************************************)
LoopAttempt == last.script \in {"sync_all_repos", "backfill"}

C2_RerunUpdates ==
    LoopAttempt /\ last.before = 1 =>
        /\ last.outcome \in {"Updated", "Errored"}
        /\ Cardinality(KeyPositions(db, last.number, last.repo)) = 1

(***************************************************************************)
(* C3: starting from a database without duplicate keys, after any sequence *)
(* of runs, failed remote calls included, the database holds at most one   *)
(* page per (Issue ID, Repo) pair.                                         *)
(***************************************************************************)
C3_UniqueKey ==
    \A n \in IssueNumbers, r \in Repos :
        Cardinality(KeyPositions(db, n, r)) <= 1

(***************************************************************************)
(* C4: in the reconcile loops every fetched issue is attempted once and    *)
(* ends in exactly one of Created, Updated, Errored; a fault is counted as *)
(* Errored and the loop goes on, so that on return created + updated +     *)
(* errors is the number of fetched issues.                                 *)
(***************************************************************************)
CountOf(outcome) ==
    Cardinality({k \in 1..Len(outcomes) : outcomes[k] = outcome})

C4_EveryIssueCounted ==
    script \in {"sync_all_repos", "backfill"} =>
        /\ Len(outcomes) = idx
        /\ \A k \in 1..Len(outcomes) :
              outcomes[k] \in {"Created", "Updated", "Errored"}
        /\ counters.created = CountOf("Created")
        /\ counters.updated = CountOf("Updated")
        /\ counters.errors = CountOf("Errored")
        /\ counters.created + counters.updated + counters.errors = idx
        /\ pc = "loop" => idx < Len(run_issues)
        /\ pc = "returned" => idx = Len(run_issues)

\* A loop returned after a fault on its first issue and a creation for its
\* second one.
C4_Witness ==
    /\ pc = "returned"
    /\ script \in {"sync_all_repos", "backfill"}
    /\ outcomes = <<"Errored", "Created">>
    /\ counters = [created |-> 1, updated |-> 0, errors |-> 1]

(***************************************************************************)
(* C7 (as amended): on a successful (200) response of the query endpoint   *)
(* find_existing_page does not raise and returns none when nothing matches *)
(* and the first matching page in database order otherwise, also when two  *)
(* pages share the (Issue ID, Repo); on a non-200 response the version of  *)
(* sync_all_repos.py returns none without raising and the version of       *)
(* sync_issue_to_notion.py raises.                                         *)
(***************************************************************************)
C7_FirstMatchOn200 ==
    last.script # "none" =>
        /\ last.lookup_status = 200 =>
              /\ ~last.lookup_exc
              /\ last.existing_id = last.first_id
        /\ last.lookup_status # 200 =>
              /\ last.existing_id = 0
              /\ last.lookup_exc <=> last.script # "sync_all_repos"

\* A lookup found two pages of its key and answered with the first.
C7_Witness ==
    /\ last.before = 2
    /\ last.lookup_status = 200
    /\ last.existing_id # 0
    /\ last.existing_id = last.first_id
    /\ last.outcome = "Updated"

\* C7 as stated: find_existing_page never raises, whatever the response,
\* and returns none or the first matching page.
C7_NeverRaises ==
    last.script # "none" =>
        /\ ~last.lookup_exc
        /\ last.existing_id \in {0, last.first_id}

(***************************************************************************)
(* C11: every record a forward pass creates for an issue carries the       *)
(* status the forward mapping gives the issue, a priority derived from its *)
(* labels (High for high-priority / high / urgent, else Medium for medium  *)
(* / medium-priority, else Low for low / low-priority, else Medium) and a  *)
(* comment count equal to the number of comments fetched (0 when the fetch *)
(* failed or returned none); an open issue labelled only "blocked" with no *)
(* comments gets Status Blocked, Priority Medium and Comments 0.           *)
(***************************************************************************)
PriorityAsClaimed(labels) ==
    LET names == {Lower(l) : l \in labels} IN
    IF names \cap {"high-priority", "high", "urgent"} # {} THEN "High"
    ELSE IF names \cap {"medium", "medium-priority"} # {} THEN "Medium"
    ELSE IF names \cap {"low", "low-priority"} # {} THEN "Low"
    ELSE "Medium"

StatusAsClaimed(issue) ==
    IF issue.state = "closed" THEN "Done"
    ELSE IF HasBlocked(issue.labels) THEN "Blocked"
    ELSE IF HasProgress(issue.labels) THEN "In Progress"
    ELSE IF HasReview(issue.labels) THEN "Under Review"
    ELSE "Backlog"

CommentsFetched(cresp) == IF cresp.status = 200 THEN Len(cresp.json) ELSE 0

CreatedAsClaimed(props, issue, cresp) ==
    /\ "Status" \in DOMAIN props /\ props["Status"] = StatusAsClaimed(issue)
    /\ "Priority" \in DOMAIN props
    /\ props["Priority"] = PriorityAsClaimed(issue.labels)
    /\ "Comments" \in DOMAIN props
    /\ props["Comments"] = CommentsFetched(cresp)
    /\ issue.state = "open" /\ issue.labels = {"blocked"}
          /\ CommentsFetched(cresp) = 0
       => /\ props["Status"] = "Blocked"
          /\ props["Priority"] = "Medium"
          /\ props["Comments"] = 0

C11_CreatedRecord ==
    fw_last.outcome = "Created" =>
        CreatedAsClaimed(db[fw_last.page_id].properties, fw_last.issue,
                         fw_last.cresp)

\* What does hold: the records sync_all_repos.py creates are as claimed.
C11_SyncAllReposOnly ==
    fw_last.outcome = "Created" /\ fw_last.script = "sync_all_repos" =>
        CreatedAsClaimed(db[fw_last.page_id].properties, fw_last.issue,
                         fw_last.cresp)

(***************************************************************************)
(* C14: an update of an existing record overwrites all mapped properties:  *)
(* after a successful update the status, labels and comment count of the   *)
(* record are those of the issue as it stands, and every other mapped      *)
(* property the record carries (milestone, due date, assignee, priority)   *)
(* is the forward mapping's value for the issue as it stands, none being   *)
(* left over from an earlier sync: a record of an issue without milestone  *)
(* carries no milestone and no due date, one of an issue without assignees *)
(* no assignee.                                                            *)
(***************************************************************************)
\* The mapped properties an issue gives rise to, after section 4.3 of the
\* specification of the system.
MappingAsClaimed(issue, cresp) ==
    ("Status" :> StatusAsClaimed(issue))
    @@ ("Labels" :> issue.labels)
    @@ ("Comments" :> CommentsFetched(cresp))
    @@ ("Priority" :> PriorityAsClaimed(issue.labels))
    @@ (IF issue.milestone # NoMilestone
        THEN ("Milestone" :> issue.milestone.title) ELSE NoProps)
    @@ (IF issue.milestone # NoMilestone /\ issue.milestone.due_on # NoValue
        THEN ("Due Date" :> "2026-12-31") ELSE NoProps)
    @@ (IF issue.assignees # <<>>
        THEN ("Assignee" :> "alice, bob") ELSE NoProps)

C14_FullOverwrite ==
    fw_last.outcome = "Updated" =>
        LET props == db[fw_last.page_id].properties
            mapping == MappingAsClaimed(fw_last.issue, fw_last.cresp)
        IN  /\ \A p \in {"Status", "Labels", "Comments"} :
                  p \in DOMAIN props /\ props[p] = mapping[p]
            /\ \A p \in {"Milestone", "Due Date", "Assignee", "Priority"} :
                  p \in DOMAIN props
                     => p \in DOMAIN mapping /\ props[p] = mapping[p]

(***************************************************************************)
(* C12: in the sweep, for each record whose source issue was fetched, a    *)
(* close call is issued if and only if the record's status is Done and the *)
(* issue is open, and a reopen call if and only if the record's status is  *)
(* anything but Done (a missing or unrecognised status included) and the   *)
(* issue is closed; no issue is closed for a record whose status is not    *)
(* Done.                                                                   *)
(***************************************************************************)
HasCall(name) ==
    \E k \in 1..Len(s_last.calls) : s_last.calls[k].call = name

\* The status the record carries; NoValue when it carries none.
RecordStatus ==
    IF "Status" \in DOMAIN s_last.page.properties
    THEN s_last.page.properties["Status"] ELSE NoValue

RecordLabels == s_last.page.properties["Labels"]

Fetched == s_last.fetched # NoIssue

C12_CloseReopen ==
    Fetched =>
        /\ HasCall("close")
              <=> (RecordStatus = "Done" /\ s_last.fetched.state = "open")
        /\ HasCall("reopen")
              <=> (RecordStatus # "Done" /\ s_last.fetched.state = "closed")
        /\ RecordStatus # "Done" => ~HasCall("close")

\* A record with a status the lookup table does not have met a closed issue
\* and the issue was reopened.
C12_Witness ==
    /\ Fetched
    /\ RecordStatus = "Archived"
    /\ s_last.fetched.state = "closed"
    /\ s_last.calls[1].call = "reopen"
    /\ s_last.gh.state = "open"

(***************************************************************************)
(* C13 (as amended): in the sweep, for each record whose source issue was  *)
(* fetched and whose state write, when one was issued, did not fail, a     *)
(* label write is issued if and only if the label set of the issue differs *)
(* from the label set of the record; the write replaces the whole label    *)
(* set, so that after a record processed without fault the issue carries   *)
(* the record's labels exactly; with equal sets the labels of the issue    *)
(* are left as they were. A failed state write ends the record: no label   *)
(* write follows it.                                                       *)
(***************************************************************************)
StateWriteFailed ==
    /\ s_last.outcome = "Errored"
    /\ s_last.calls # <<>>
    /\ s_last.calls[Len(s_last.calls)].call \in {"close", "reopen"}

LabelWriteAsClaimed ==
    /\ HasCall("labels") <=> s_last.fetched.labels # RecordLabels
    /\ \A k \in 1..Len(s_last.calls) :
          s_last.calls[k].call = "labels"
             => s_last.calls[k].labels = RecordLabels
    /\ s_last.outcome = "Synced" => s_last.gh.labels = RecordLabels
    /\ s_last.fetched.labels = RecordLabels
          => s_last.gh.labels = s_last.fetched.labels

C13_LabelWrite ==
    /\ Fetched /\ ~StateWriteFailed => LabelWriteAsClaimed
    /\ Fetched /\ StateWriteFailed => ~HasCall("labels")

\* The issue was closed and then relabelled for one record: the label that
\* only the issue carried is gone.
C13_Witness ==
    /\ Fetched
    /\ s_last.outcome = "Synced"
    /\ Len(s_last.calls) = 2
    /\ s_last.calls[1].call = "close"
    /\ s_last.calls[2].call = "labels"
    /\ s_last.fetched.labels = {"blocked"}
    /\ RecordLabels = {}
    /\ s_last.gh.labels = {}

\* C13 as stated: for each record whose source issue was fetched, a label
\* write is issued if and only if the label sets differ.
C13_LabelWriteAlways == Fetched => LabelWriteAsClaimed

(***************************************************************************)
(* C15: the sweep is fault-isolated per record: a fault while reconciling  *)
(* one record is caught and never leaves the loop, every record enumerated *)
(* is processed, and once the records are enumerated the sweep reaches its *)
(* completion step.                                                        *)
(***************************************************************************)
C15_FaultIsolated ==
    /\ [](s_pc = "raised" => s_idx = 0)
    /\ [](s_pc = "complete" /\ s_count > 0
             => s_idx = s_count /\ s_pages = <<>>)
    /\ [](s_pc = "sweep" => s_idx < s_count /\ s_faults <= s_idx)
    /\ (s_pc = "sweep" ~> s_pc = "complete")

\* A sweep completed after a fault on its first record (a malformed Issue
\* ID) and a write to GitHub for its second one.
C15_Witness ==
    /\ s_pc = "complete"
    /\ s_count = 2
    /\ s_idx = 2
    /\ s_faults = 1
    /\ s_last.outcome = "Synced"
    /\ s_last.calls # <<>>

(***************************************************************************)
(* C16: every bidirectional invocation performs the forward pass first and *)
(* then the sweep over the database, in that order: an invocation that has *)
(* ended has entered the forward pass and, after it, the sweep.            *)
(***************************************************************************)
C16_ForwardThenSweep ==
    s_pc \in {"complete", "raised"} => s_phases = <<"forward", "sweep">>

(***************************************************************************)
(* C17: get_all_notion_pages terminates when every query succeeds: it asks *)
(* for the first page without a cursor and for each next page with the     *)
(* cursor of the response before, never for a page twice, stops at the     *)
(* first response that reports no more pages, and returns the pages of the *)
(* database in their order.                                                *)
(***************************************************************************)
\* The requests a database of the given size and page size takes.
RequestsNeeded(store) ==
    IF store.total = 0 THEN 1
    ELSE (store.total + store.page_size - 1) \div store.page_size

EnumAsClaimed ==
    /\ \A i \in 1..Len(n_asked) :
          n_asked[i] = IF i = 1 THEN 0 ELSE (i - 1) * n_store.page_size + 1
    /\ \A i, j \in 1..Len(all_pages) : i # j => all_pages[i] # all_pages[j]
    /\ Len(n_asked) <= RequestsNeeded(n_store)
    /\ n_pc = "loop" => Len(all_pages) = Len(n_asked) * n_store.page_size
    /\ n_pc = "returned" =>
          /\ all_pages = [k \in 1..n_store.total |-> k]
          /\ Len(n_asked) = RequestsNeeded(n_store)

C17_EnumTerminates ==
    /\ []EnumAsClaimed
    /\ <>(n_pc \in {"returned", "raised"})

\* An enumeration returned after three requests with all the pages.
C17_Witness ==
    /\ n_pc = "returned"
    /\ Len(n_asked) = 3
    /\ n_store.total > 0
    /\ Len(all_pages) = n_store.total

(***************************************************************************)
(* C18: when the Status and Labels of a page of an issue were written by   *)
(* the forward pass of sync_issue_to_notion.py from the issue as it stands *)
(* on GitHub and neither side was edited since, the sweep issues no state  *)
(* write and no label write for that issue.                                *)
(***************************************************************************)
C18_Stable == s_last.stable => s_last.calls = <<>>

====
